---- MODULE Spec2Model ----
(***************************************************************************)
(* Model of src/src/renderer.py: class Renderer, which formats a           *)
(* LocationInfoDTO into a bordered text table followed by a news digest.   *)
(*                                                                         *)
(* A Python str is modelled as a sequence of one-character strings.  The   *)
(* source's Cyrillic letters and the signs "2 superscript" and "degree"    *)
(* are written with one ASCII stand-in character each, so that every       *)
(* literal keeps the length (the number of code points) len() reports.     *)
(***************************************************************************)
EXTENDS Integers, Sequences, FiniteSets, TLC

(***************************************************************************)
(* Bounds of the model.                                                    *)
(***************************************************************************)
MaxLangs == 2
MaxNews == 2
MaxCalls == 2
MaxHelperPopulation == 1100
MaxHelperHours == 14
MaxHelperMilli == 2400

(***************************************************************************)
(* Python built-ins on str and int.                                        *)
(***************************************************************************)
DigitChars == <<"0", "1", "2", "3", "4", "5", "6", "7", "8", "9">>

NL == "\n"

\* str(n) for an int n >= 0
RECURSIVE NatStr(_)
NatStr(n) ==
    IF n < 10 THEN <<DigitChars[n + 1]>>
    ELSE NatStr(n \div 10) \o <<DigitChars[(n % 10) + 1]>>

\* str(n) for an int n
IntStr(n) == IF n < 0 THEN <<"-">> \o NatStr(-n) ELSE NatStr(n)

\* n rendered in exactly w digits, zero padded (the %02d / %04d of datetime)
RECURSIVE ZeroPad(_, _)
ZeroPad(n, w) ==
    IF w = 0 THEN <<>>
    ELSE ZeroPad(n \div 10, w - 1) \o <<DigitChars[(n % 10) + 1]>>

\* c * n : n copies of the character c; a count below 1 gives the empty str
Rep(c, n) == [k \in 1..n |-> c]

\* sep.join(parts)
RECURSIVE Join(_, _)
Join(parts, sep) ==
    IF Len(parts) = 0 THEN <<>>
    ELSE IF Len(parts) = 1 THEN parts[1]
    ELSE parts[1] \o sep \o Join(Tail(parts), sep)

\* s.replace(old, new) for one-character old and new
Replace(s, old, new) == [k \in 1..Len(s) |-> IF s[k] = old THEN new ELSE s[k]]

\* max(a, b)
Max(a, b) == IF a >= b THEN a ELSE b

\* str(x) of a numeric field: an int, or a float that is a whole number of
\* tenths (repr gives the shortest text that reads back: "55.7", "17098242.0")
NumStr(x) ==
    IF x.isInt THEN IntStr(x.t)
    ELSE LET a == IF x.t < 0 THEN -x.t ELSE x.t
         IN  (IF x.t < 0 THEN <<"-">> ELSE <<>>)
             \o NatStr(a \div 10) \o <<".">> \o <<DigitChars[(a % 10) + 1]>>

\* "{:,}".format(n): the decimal digits of n grouped in threes with ","
RECURSIVE NatComma(_)
NatComma(n) ==
    IF n < 1000 THEN NatStr(n)
    ELSE NatComma(n \div 1000) \o <<",">> \o ZeroPad(n % 1000, 3)

FormatComma(n) == IF n < 0 THEN <<"-">> \o NatComma(-n) ELSE NatComma(n)

(***************************************************************************)
(* datetime.fromtimestamp(t) and its str(): the host's local civil time of *)
(* the instant t, as "YYYY-MM-DD HH:MM:SS".  The host's zone is its UTC    *)
(* offset in seconds, hostOffset.                                          *)
(***************************************************************************)
CivilFromDays(days) ==
    LET z == days + 719468
        era == z \div 146097
        doe == z - era * 146097
        yoe == (doe - (doe \div 1460) + (doe \div 36524) - (doe \div 146096)) \div 365
        doy == doe - (365 * yoe + (yoe \div 4) - (yoe \div 100))
        mp == (5 * doy + 2) \div 153
        d == doy - ((153 * mp + 2) \div 5) + 1
        m == IF mp < 10 THEN mp + 3 ELSE mp - 9
        y == yoe + era * 400 + (IF m <= 2 THEN 1 ELSE 0)
    IN  [year |-> y, month |-> m, day |-> d]

DateTimeStr(t, offset) ==
    LET local == t + offset
        c == CivilFromDays(local \div 86400)
        sod == local % 86400
    IN  ZeroPad(c.year, 4) \o <<"-">> \o ZeroPad(c.month, 2) \o <<"-">>
        \o ZeroPad(c.day, 2) \o <<" ">> \o ZeroPad(sod \div 3600, 2) \o <<":">>
        \o ZeroPad((sod % 3600) \div 60, 2) \o <<":">> \o ZeroPad(sod % 60, 2)

(***************************************************************************)
(* decimal.Decimal(rates).quantize(Decimal('.01'), ROUND_HALF_UP).         *)
(*                                                                         *)
(* A rate is [isFloat, neg, milli]: the magnitude milli/1000 written with  *)
(* three decimals, given either as a str ("2.345": Decimal reads the       *)
(* decimal value itself) or as a float (Decimal takes the exact value of   *)
(* the nearest IEEE double, which differs from milli/1000 unless the       *)
(* fraction is dyadic).                                                    *)
(***************************************************************************)
RECURSIVE PowMod(_, _, _)
PowMod(b, e, m) == IF e = 0 THEN 1 % m ELSE (b * PowMod(b, e - 1, m)) % m

\* the k >= 0 with 1000 <= milli * 2^k < 2000, for 0 < milli < 1000
RECURSIVE ShiftUp(_)
ShiftUp(milli) == IF milli >= 1000 THEN 0 ELSE 1 + ShiftUp(2 * milli)

\* the p >= 0 with 1000 * 2^p <= milli < 1000 * 2^(p+1), for milli >= 1000
RECURSIVE ShiftDown(_)
ShiftDown(milli) == IF milli < 2000 THEN 0 ELSE 1 + ShiftDown(milli \div 2)

\* The sign of double(milli/1000) - milli/1000.  The double is m / 2^e with
\* 2^52 <= m < 2^53 the integer nearest to milli * 2^e / 1000; the remainder
\* of milli * 2^e modulo 1000 tells which way the nearest integer lies (it
\* is a multiple of 8, hence never the tie 500).
FloatErrSign(milli) ==
    IF milli = 0 THEN 0
    ELSE LET e == IF milli < 1000 THEN 52 + ShiftUp(milli) ELSE 52 - ShiftDown(milli)
             r == ((milli % 1000) * PowMod(2, e, 1000)) % 1000
         IN  IF r = 0 THEN 0 ELSE IF r < 500 THEN -1 ELSE 1

\* Mutant of QuantizeHalfUp: ROUND_HALF_EVEN, a tie going to the even hundredth.
QuantizeHalfEven(rate) ==
    LET cents == rate.milli \div 10
        rest == rate.milli % 10
        err == IF rate.isFloat THEN FloatErrSign(rate.milli) ELSE 0
    IN  IF rest > 5 \/ (rest = 5 /\ err > 0) \/ (rest = 5 /\ err = 0 /\ cents % 2 = 1)
          THEN cents + 1 ELSE cents

\* The magnitude of the quantized value in hundredths, ROUND_HALF_UP: the
\* discarded part of the exact value decides, a tie going away from zero.
QuantizeHalfUp(rate) ==
    LET cents == rate.milli \div 10
        rest == rate.milli % 10
        err == IF rate.isFloat THEN FloatErrSign(rate.milli) ELSE 0
    IN  IF rest > 5 \/ (rest = 5 /\ err >= 0) THEN cents + 1 ELSE cents

\* str() of the quantized Decimal: sign, integer digits, ".", two digits
DecimalStr(rate) ==
    LET q == QuantizeHalfUp(rate)
    IN  (IF rate.neg THEN <<"-">> ELSE <<>>)
        \o NatStr(q \div 100) \o <<".">> \o ZeroPad(q % 100, 2)

(***************************************************************************)
(* State.                                                                  *)
(***************************************************************************)
VARIABLES
    location_info,    \* Renderer.location_info, set by __init__
    hostOffset,       \* the host's local UTC offset, read by fromtimestamp
    pc,               \* where the running render() is; "idle" between calls
    country_part,     \* render's dict, as the sequence of its items
    capital_part,     \* render's dict, as the sequence of its items
    max_key_length,   \* render's local
    max_val_length,   \* render's local
    idx,              \* position of the running for loop in its dict
    result,           \* render's list
    returned,         \* the tuples returned by the calls of render so far
    ret               \* the value a directly awaited helper returned

vars == <<location_info, hostOffset, pc, country_part, capital_part,
          max_key_length, max_val_length, idx, result, returned, ret>>

(***************************************************************************)
(* The helpers of Renderer.  Each reads location_info only.                *)
(***************************************************************************)

_format_languages(info) ==
    Join([k \in 1..Len(info.location.languages) |->
             info.location.languages[k].name \o <<" ", "(">>
             \o info.location.languages[k].native_name \o <<")">>],
         <<",", " ">>)

\* Mutant of _format_population: the "," of the format spec is left in place.
_format_population_commas(info) == FormatComma(info.location.population)

_format_population(info) ==
    Replace(FormatComma(info.location.population), ",", ".")

_format_currency_rates(info) ==
    Join([k \in 1..Len(info.currency_rates) |->
             info.currency_rates[k].code \o <<" ", "=", " ">>
             \o DecimalStr(info.currency_rates[k].rate) \o <<" ", "r", "u", "b", ".">>],
         <<",", " ">>)

\* Mutant of _format_timezone: the hours truncated toward zero.
_format_timezone_truncating(info) ==
    LET tz == info.weather.timezone
        base == IF tz >= 0 THEN <<"U", "T", "C">> \o <<"+">> ELSE <<"U", "T", "C">>
    IN  base \o IntStr(IF tz < 0 THEN -((-tz) \div 3600) ELSE tz \div 3600)

_format_timezone(info) ==
    LET base == IF info.weather.timezone >= 0 THEN <<"U", "T", "C">> \o <<"+">> ELSE <<"U", "T", "C">>
    IN  base \o IntStr(info.weather.timezone \div 3600)

NewsHeader == <<"n", "o", "v", "o", "s", "t", "i", " ", "p", "o", " ", "d", "a", "n", "n", "o", "y", " ", "s", "t", "r", "a", "n", "e">>

\* Mutant of NewsBlocks: no blank line closes an item's block.
RECURSIVE NewsBlocks_NoBlank(_)
NewsBlocks_NoBlank(news) ==
    IF Len(news) = 0 THEN <<>>
    ELSE news[1].title \o <<NL>> \o news[1].description \o <<NL>>
         \o news[1].url \o <<NL>> \o news[1].published_at \o <<NL>>
         \o NewsBlocks_NoBlank(Tail(news))

RECURSIVE NewsBlocks(_)
NewsBlocks(news) ==
    IF Len(news) = 0 THEN <<>>
    ELSE news[1].title \o <<NL>> \o news[1].description \o <<NL>>
         \o news[1].url \o <<NL>> \o news[1].published_at \o <<NL, NL>>
         \o NewsBlocks(Tail(news))

_format_news(info) == NewsHeader \o <<NL>> \o NewsBlocks(info.news)

(***************************************************************************)
(* render: the two dicts, the width scan, the rows.                        *)
(***************************************************************************)
Item(k, v) == [key |-> k, val |-> v]

CountryPart(info) ==
    << Item(<<"s", "t", "r", "a", "n", "a">>, info.location.name),
       Item(<<"r", "e", "g", "i", "o", "n">>, info.location.subregion),
       Item(<<"p", "l", "o", "W", "a", "d", "q", " ", "s", "t", "r", "a", "n", "Y">>, NumStr(info.location.area) \o <<" ", "k", "m", "2">>),
       Item(<<"A", "z", "Y", "k", "i">>, _format_languages(info)),
       Item(<<"n", "a", "s", "e", "l", "e", "n", "i", "e", " ", "s", "t", "r", "a", "n", "Y">>, _format_population(info) \o <<" ", "C", "e", "l", ".">>),
       Item(<<"k", "u", "r", "s", "Y", " ", "v", "a", "l", "U", "t">>, _format_currency_rates(info)) >>

CapitalPart(info, offset) ==
    << Item(<<"s", "t", "o", "l", "i", "c", "a">>, info.location.capital),
       Item(<<"S", "i", "r", "o", "t", "a", " ", "s", "t", "o", "l", "i", "c", "Y">>, NumStr(info.location.capital_latitude)),
       Item(<<"d", "o", "l", "g", "o", "t", "a", " ", "s", "t", "o", "l", "i", "c", "Y">>, NumStr(info.location.capital_longitude)),
       Item(<<"p", "o", "g", "o", "d", "a", " ", "v", " ", "s", "t", "o", "l", "i", "c", "e">>, NumStr(info.weather.temp) \o <<" ", "o", "C">>),
       Item(<<"o", "p", "i", "s", "a", "n", "i", "e", " ", "p", "o", "g", "o", "d", "Y", " ", "v", " ", "s", "t", "o", "l", "i", "c", "e">>, info.weather.description),
       Item(<<"s", "k", "o", "r", "o", "s", "t", "q", " ", "v", "e", "t", "r", "a", " ", "v", " ", "s", "t", "o", "l", "i", "c", "e">>, NumStr(info.weather.wind_speed) \o <<" ", "m", "/", "s">>),
       Item(<<"v", "i", "d", "i", "m", "o", "s", "t", "q", " ", "v", " ", "s", "t", "o", "l", "i", "c", "e">>, NumStr(info.weather.visibility) \o <<" ", "m">>),
       Item(<<"C", "a", "s", "o", "v", "o", "y", " ", "p", "o", "A", "s", " ", "s", "t", "o", "l", "i", "c", "Y">>, _format_timezone(info)),
       Item(<<"v", "r", "e", "m", "A", " ", "v", " ", "s", "t", "o", "l", "i", "c", "e">>,
            DateTimeStr(info.weather.dt + info.weather.timezone, offset)) >>

country_part_header == <<"i", "n", "f", "o", "r", "m", "a", "c", "i", "A", " ", "o", " ", "s", "t", "r", "a", "n", "e">>

capital_part_header == <<"i", "n", "f", "o", "r", "m", "a", "c", "i", "A", " ", "o", " ", "s", "t", "o", "l", "i", "c", "e">>

\* Mutant of TopBorder: as wide as the separator's run of "-".
TopBorder_Short(mk, mv) == Rep("_", mk + mv + 7) \o <<NL>>

TopBorder(mk, mv) == Rep("_", mk + mv + 9) \o <<NL>>

\* Mutant of TitleRow: the padding one short.
TitleRow_Short(title, mk, mv) ==
    <<"|", " ">> \o title \o Rep(" ", mk + mv + 4 - Len(title)) \o <<" ", "|", NL>>

TitleRow(title, mk, mv) ==
    <<"|", " ">> \o title \o Rep(" ", mk + mv + 5 - Len(title)) \o <<" ", "|", NL>>

Separator(mk, mv) == <<"|">> \o Rep("-", mk + mv + 7) \o <<"|", NL>>

\* Mutant of DataRow: the value padded to max_val_length only.
DataRow_NarrowValue(item, mk, mv) ==
    <<"|", " ">> \o item.key \o Rep(" ", mk - Len(item.key)) \o <<" ", "|", " ">>
    \o item.val \o Rep(" ", mv - Len(item.val)) \o <<" ", "|", NL>>

DataRow(item, mk, mv) ==
    <<"|", " ">> \o item.key \o Rep(" ", mk - Len(item.key)) \o <<" ", "|", " ">>
    \o item.val \o Rep(" ", mv - Len(item.val) + 2) \o <<" ", "|", NL>>

\* one pass of a scan loop's body over an item
ScanKey(mk, item) == Max(mk, Len(item.key))

ScanVal(mv, item) == Max(mv, Len(item.val))

(***************************************************************************)
(* Inputs: the LocationInfoDTO objects a Renderer is constructed with.     *)
(***************************************************************************)
BoundedSeq(S, n) == UNION {[1..k -> S] : k \in 0..n}

IntNum(n) == [isInt |-> TRUE, t |-> n]

FloatNum(tenths) == [isInt |-> FALSE, t |-> tenths]

Rate(isFloat, neg, milli) == [isFloat |-> isFloat, neg |-> neg, milli |-> milli]

Entry(code, rate) == [code |-> code, rate |-> rate]

LanguageSet ==
    { [name |-> <<"R", "u", "s", "s", "i", "a", "n">>, native_name |-> <<"r", "u", "s", "s", "k", "i", "y">>],
      [name |-> <<"T", "a", "t", "a", "r">>, native_name |-> <<"t", "a", "t", "a", "r", "C", "a">>] }

NewsItem(n) ==
    [title |-> <<"T", "i", "t", "l", "e">> \o NatStr(n), description |-> <<"A", "b", "o", "u", "t", " ">> \o NatStr(n),
     url |-> <<"h", "t", "t", "p", ":", "/", "/", "n", "/">> \o NatStr(n), published_at |-> <<"2", "0", "2", "3", "-", "0", "3", "-", "0">> \o NatStr(n)]

NewsSet == {NewsItem(1), NewsItem(2)}

\* the first n items of a feed of distinct items
NewsFeed(n) == [k \in 1..n |-> NewsItem(k)]

RatesSet ==
    { <<>>,
      <<Entry(<<"U", "S", "D">>, Rate(TRUE, FALSE, 75555))>>,
      <<Entry(<<"U", "S", "D">>, Rate(TRUE, FALSE, 2345)), Entry(<<"E", "U", "R">>, Rate(FALSE, FALSE, 2345))>> }

BaseInfo ==
    [location |->
        [name |-> <<"R", "u", "s", "s", "i", "a">>, subregion |-> <<"E", "a", "s", "t", "e", "r", "n", " ", "E", "u", "r", "o", "p", "e">>,
         area |-> FloatNum(170982420), capital |-> <<"M", "o", "s", "c", "o", "w">>,
         capital_latitude |-> FloatNum(557), capital_longitude |-> FloatNum(376),
         population |-> 1234567,
         languages |-> <<>>],
     weather |->
        [dt |-> 1000, timezone |-> 3600, temp |-> FloatNum(-55),
         description |-> <<"c", "l", "e", "a", "r", " ", "s", "k", "y">>, wind_speed |-> FloatNum(30),
         visibility |-> IntNum(10000)],
     currency_rates |-> <<>>,
     news |-> <<>>]

WithLocation(info, field, v) == [info EXCEPT !.location[field] = v]

WithWeather(info, field, v) == [info EXCEPT !.weather[field] = v]

RenderInputs ==
    { [BaseInfo EXCEPT !.location.languages = ls, !.location.population = p,
                       !.weather.timezone = tz, !.currency_rates = rs,
                       !.news = NewsFeed(n)] :
        ls \in BoundedSeq(LanguageSet, MaxLangs), p \in {999, 1234567},
        tz \in {-19800, 10800}, rs \in RatesSet, n \in 0..MaxNews }

HostOffsets == {0, 10800}

PopulationInputs ==
    (0..MaxHelperPopulation)
    \cup {9999, 10000, 99999, 100000, 999999, 1000000, 1234567, 12345678, 1000000000}

TimezoneInputs ==
    {900 * k : k \in (-4 * MaxHelperHours)..(4 * MaxHelperHours)}
    \cup {-3601, -3599, -1, 1, 3599, 3601}

RateInputs ==
    {Rate(f, n, m) : f \in BOOLEAN, n \in BOOLEAN, m \in 0..MaxHelperMilli}

HelperInputs ==
    {WithLocation(BaseInfo, "population", p) : p \in PopulationInputs}
    \cup {WithWeather(BaseInfo, "timezone", tz) : tz \in TimezoneInputs}
    \cup {[BaseInfo EXCEPT !.currency_rates = <<Entry(<<"U", "S", "D">>, r)>>] : r \in RateInputs}
    \cup {[BaseInfo EXCEPT !.currency_rates = rs] : rs \in RatesSet}
    \cup {[BaseInfo EXCEPT !.news = ns] : ns \in BoundedSeq(NewsSet, MaxNews)}
    \cup {WithLocation(BaseInfo, "languages", ls) : ls \in BoundedSeq(LanguageSet, MaxLangs)}

(***************************************************************************)
(* Renderer.__init__ and the state between calls.                          *)
(***************************************************************************)
NoRet == [op |-> "none", val |-> <<>>]

Locals ==
    /\ pc = "idle"
    /\ country_part = <<>>
    /\ capital_part = <<>>
    /\ max_key_length = 0
    /\ max_val_length = 0
    /\ idx = 0
    /\ result = <<>>
    /\ returned = <<>>
    /\ ret = NoRet

Init ==
    /\ location_info \in RenderInputs
    /\ hostOffset \in HostOffsets
    /\ Locals

InitHelpers ==
    /\ location_info \in HelperInputs
    /\ hostOffset = 0
    /\ Locals

(***************************************************************************)
(* render, one action per statement or loop pass.                          *)
(***************************************************************************)
\* lines 31-56: the local time, both dicts, the two maxima set to 0
Build ==
    /\ pc = "idle"
    /\ Len(returned) < MaxCalls
    /\ country_part' = CountryPart(location_info)
    /\ capital_part' = CapitalPart(location_info, hostOffset)
    /\ max_key_length' = 0
    /\ max_val_length' = 0
    /\ idx' = 1
    /\ pc' = "scan_country"
    /\ UNCHANGED <<location_info, hostOffset, result, returned, ret>>

\* lines 58-60: one pass of the first scan loop
ScanCountry ==
    /\ pc = "scan_country"
    /\ max_key_length' = ScanKey(max_key_length, country_part[idx])
    /\ max_val_length' = ScanVal(max_val_length, country_part[idx])
    /\ IF idx < Len(country_part)
         THEN idx' = idx + 1 /\ pc' = pc
         ELSE idx' = 1 /\ pc' = "scan_capital"
    /\ UNCHANGED <<location_info, hostOffset, country_part, capital_part,
                   result, returned, ret>>

\* Mutant of ScanCapital: the second dict is not scanned.
ScanCapital_Skipped ==
    /\ pc = "scan_capital"
    /\ idx' = 1
    /\ pc' = "emit_head"
    /\ UNCHANGED <<location_info, hostOffset, country_part, capital_part,
                   max_key_length, max_val_length, result, returned, ret>>

\* lines 62-64: one pass of the second scan loop
ScanCapital ==
    /\ pc = "scan_capital"
    /\ max_key_length' = ScanKey(max_key_length, capital_part[idx])
    /\ max_val_length' = ScanVal(max_val_length, capital_part[idx])
    /\ IF idx < Len(capital_part)
         THEN idx' = idx + 1 /\ pc' = pc
         ELSE idx' = 1 /\ pc' = "emit_head"
    /\ UNCHANGED <<location_info, hostOffset, country_part, capital_part,
                   result, returned, ret>>

\* lines 66-77: the list starts with the border, the title row, a separator
EmitHead ==
    /\ pc = "emit_head"
    /\ result' = << TopBorder(max_key_length, max_val_length),
                    TitleRow(country_part_header, max_key_length, max_val_length),
                    Separator(max_key_length, max_val_length) >>
    /\ idx' = 1
    /\ pc' = "emit_country"
    /\ UNCHANGED <<location_info, hostOffset, country_part, capital_part,
                   max_key_length, max_val_length, returned, ret>>

\* lines 79-89: one pass of the first row loop
EmitCountryRow ==
    /\ pc = "emit_country"
    /\ result' = result
                 \o <<DataRow(country_part[idx], max_key_length, max_val_length)>>
                 \o <<Separator(max_key_length, max_val_length)>>
    /\ IF idx < Len(country_part)
         THEN idx' = idx + 1 /\ pc' = pc
         ELSE idx' = 1 /\ pc' = "emit_capital_head"
    /\ UNCHANGED <<location_info, hostOffset, country_part, capital_part,
                   max_key_length, max_val_length, returned, ret>>

\* lines 91-97: the second title row and its separator
EmitCapitalHead ==
    /\ pc = "emit_capital_head"
    /\ result' = result
                 \o <<TitleRow(capital_part_header, max_key_length, max_val_length)>>
                 \o <<Separator(max_key_length, max_val_length)>>
    /\ pc' = "emit_capital"
    /\ UNCHANGED <<location_info, hostOffset, country_part, capital_part,
                   max_key_length, max_val_length, idx, returned, ret>>

\* Mutant of EmitCapitalRow: the row is not followed by a separator.
EmitCapitalRow_NoSeparator ==
    /\ pc = "emit_capital"
    /\ result' = Append(result, DataRow(capital_part[idx], max_key_length, max_val_length))
    /\ IF idx < Len(capital_part)
         THEN idx' = idx + 1 /\ pc' = pc
         ELSE idx' = 1 /\ pc' = "emit_news"
    /\ UNCHANGED <<location_info, hostOffset, country_part, capital_part,
                   max_key_length, max_val_length, returned, ret>>

\* lines 99-109: one pass of the second row loop
EmitCapitalRow ==
    /\ pc = "emit_capital"
    /\ result' = result
                 \o <<DataRow(capital_part[idx], max_key_length, max_val_length)>>
                 \o <<Separator(max_key_length, max_val_length)>>
    /\ IF idx < Len(capital_part)
         THEN idx' = idx + 1 /\ pc' = pc
         ELSE idx' = 1 /\ pc' = "emit_news"
    /\ UNCHANGED <<location_info, hostOffset, country_part, capital_part,
                   max_key_length, max_val_length, returned, ret>>

\* Mutant of AppendNews: the news list is consumed while it is formatted.
AppendNews_Consuming ==
    /\ pc = "emit_news"
    /\ result' = Append(result, <<NL, NL>> \o _format_news(location_info))
    /\ location_info' = [location_info EXCEPT !.news = <<>>]
    /\ pc' = "return"
    /\ UNCHANGED <<hostOffset, country_part, capital_part,
                   max_key_length, max_val_length, idx, returned, ret>>

\* line 111: the last element, two line ends and the news digest
AppendNews ==
    /\ pc = "emit_news"
    /\ result' = Append(result, <<NL, NL>> \o _format_news(location_info))
    /\ pc' = "return"
    /\ UNCHANGED <<location_info, hostOffset, country_part, capital_part,
                   max_key_length, max_val_length, idx, returned, ret>>

\* line 113: the tuple goes to the caller, the frame and its locals are gone
Return ==
    /\ pc = "return"
    /\ returned' = Append(returned, result)
    /\ pc' = "idle"
    /\ country_part' = <<>>
    /\ capital_part' = <<>>
    /\ max_key_length' = 0
    /\ max_val_length' = 0
    /\ idx' = 0
    /\ result' = <<>>
    /\ UNCHANGED <<location_info, hostOffset, ret>>

Next ==
    \/ Build
    \/ ScanCountry
    \/ ScanCapital
    \/ EmitHead
    \/ EmitCountryRow
    \/ EmitCapitalHead
    \/ EmitCapitalRow
    \/ AppendNews
    \/ Return

Spec == Init /\ [][Next]_vars

(***************************************************************************)
(* The helpers awaited on their own, on a Renderer whose render is not     *)
(* running.                                                                *)
(***************************************************************************)
HelperCall(op, val) ==
    /\ pc = "idle"
    /\ ret' = [op |-> op, val |-> val]
    /\ UNCHANGED <<location_info, hostOffset, pc, country_part, capital_part,
                   max_key_length, max_val_length, idx, result, returned>>

CallFormatLanguages == HelperCall("languages", _format_languages(location_info))

CallFormatPopulation == HelperCall("population", _format_population(location_info))

CallFormatCurrencyRates == HelperCall("currency_rates", _format_currency_rates(location_info))

CallFormatTimezone == HelperCall("timezone", _format_timezone(location_info))

CallFormatNews == HelperCall("news", _format_news(location_info))

NextHelpers ==
    \/ CallFormatLanguages
    \/ CallFormatPopulation
    \/ CallFormatCurrencyRates
    \/ CallFormatTimezone
    \/ CallFormatNews

SpecHelpers == InitHelpers /\ [][NextHelpers]_vars

(***************************************************************************)
(* Properties of render (checked under Spec).                              *)
(***************************************************************************)
\* the width of a line as displayed: its length without the line end
Width(line) == IF Len(line) > 0 /\ line[Len(line)] = NL THEN Len(line) - 1 ELSE Len(line)

AllOf(s, from, to, c) == \A k \in from..to : s[k] = c

\* render has finished its width scan and is emitting or about to return
Scanned == pc \in {"emit_head", "emit_country", "emit_capital_head",
                   "emit_capital", "emit_news", "return"}

AllItems == {country_part[k] : k \in 1..Len(country_part)}
            \cup {capital_part[k] : k \in 1..Len(capital_part)}

\* positions of the data rows in the list: 4, 6, .., 14 and 18, 20, .., 34
IsDataRowIndex(k) == (k \in 4..15 /\ k % 2 = 0) \/ (k \in 18..35 /\ k % 2 = 0)

IsTopBorder(line) ==
    /\ Len(line) >= 2
    /\ AllOf(line, 1, Len(line) - 1, "_")
    /\ line[Len(line)] = NL

IsSeparator(line) ==
    /\ Len(line) >= 4
    /\ line[1] = "|"
    /\ AllOf(line, 2, Len(line) - 2, "-")
    /\ line[Len(line) - 1] = "|"
    /\ line[Len(line)] = NL

IsTitleRow(line, title) ==
    /\ Len(line) >= Len(title) + 5
    /\ SubSeq(line, 1, 2) = <<"|", " ">>
    /\ SubSeq(line, 3, 2 + Len(title)) = title
    /\ AllOf(line, 3 + Len(title), Len(line) - 3, " ")
    /\ SubSeq(line, Len(line) - 2, Len(line)) = <<" ", "|", NL>>

\* "| key<spaces> | val<spaces> |" with the second bar after a key column of mk
IsDataRow(line, item, mk) ==
    /\ Len(line) >= mk + Len(item.val) + 8
    /\ SubSeq(line, 1, 2) = <<"|", " ">>
    /\ SubSeq(line, 3, 2 + Len(item.key)) = item.key
    /\ AllOf(line, 3 + Len(item.key), 2 + mk, " ")
    /\ SubSeq(line, 3 + mk, 5 + mk) = <<" ", "|", " ">>
    /\ SubSeq(line, 6 + mk, 5 + mk + Len(item.val)) = item.val
    /\ AllOf(line, 6 + mk + Len(item.val), Len(line) - 3, " ")
    /\ SubSeq(line, Len(line) - 2, Len(line)) = <<" ", "|", NL>>

\* C1: every data row emitted by render begins and ends with the border
\* character "|" and holds exactly max_key_length + max_val_length + 7
\* characters between the two borders, the same for all 15 rows (the row is
\* max_key_length + max_val_length + 9 wide with its two borders).
C1_DataRowWidth ==
    Scanned =>
        \A k \in 1..Len(result) :
            IsDataRowIndex(k) =>
                LET row == result[k]
                    w == Width(row)
                IN  /\ row[1] = "|"
                    /\ row[w] = "|"
                    /\ w - 2 = max_key_length + max_val_length + 7
                    /\ \A c \in 2..(w - 1) : row[c] # NL

\* C1 witness: render is about to return all 15 rows, some shorter than others
\* before padding
C1_Witness ==
    /\ pc = "return"
    /\ Len(result) = 36
    /\ \E a, b \in AllItems : Len(a.val) < Len(b.val) /\ Len(a.key) < Len(b.key)
    /\ Len(location_info.currency_rates) = 2

\* C5: the returned sequence is, element by element: the top border, the
\* country title row, a separator, the 6 country rows in the order of the dict
\* each followed by a separator, the capital title row, a separator, the 9
\* capital rows in the order of the dict each followed by a separator, and one
\* last element holding two line ends and the news digest.
C5_ElementOrder ==
    pc = "return" =>
        /\ Len(result) = 36
        /\ Len(country_part) = 6
        /\ Len(capital_part) = 9
        /\ IsTopBorder(result[1])
        /\ IsTitleRow(result[2], country_part_header)
        /\ IsSeparator(result[3])
        /\ \A j \in 1..6 :
              /\ IsDataRow(result[2 + 2 * j], country_part[j], max_key_length)
              /\ IsSeparator(result[3 + 2 * j])
        /\ IsTitleRow(result[16], capital_part_header)
        /\ IsSeparator(result[17])
        /\ \A j \in 1..9 :
              /\ IsDataRow(result[16 + 2 * j], capital_part[j], max_key_length)
              /\ IsSeparator(result[17 + 2 * j])
        /\ SubSeq(result[36], 1, 2 + Len(NewsHeader)) = <<NL, NL>> \o NewsHeader
        /\ country_part[1].val = location_info.location.name
        /\ country_part[2].val = location_info.location.subregion
        /\ capital_part[1].val = location_info.location.capital
        /\ capital_part[5].val = location_info.weather.description

\* C5 witness: a finished list for an input with languages, rates and news
C5_Witness ==
    /\ pc = "return"
    /\ Len(result) = 36
    /\ Len(location_info.location.languages) = 2
    /\ Len(location_info.news) = 2

\* C6 (as amended): the first element of the sequence is exactly
\* max_key_length + max_val_length + 9 characters "_" followed by one line end.
C6_TopBorderThenNewline ==
    (Scanned /\ Len(result) >= 1) =>
        /\ Len(result[1]) = max_key_length + max_val_length + 10
        /\ AllOf(result[1], 1, max_key_length + max_val_length + 9, "_")
        /\ result[1][Len(result[1])] = NL

\* C6 (as stated): the first element is a string of length exactly
\* max_key_length + max_val_length + 9 composed solely of "_".
C6_TopBorderOnlyUnderscores ==
    (Scanned /\ Len(result) >= 1) =>
        /\ Len(result[1]) = max_key_length + max_val_length + 9
        /\ AllOf(result[1], 1, Len(result[1]), "_")

\* C6 witness: the minimal input of the claim, one language, one currency, one
\* news item, rendered to the end
C6_Witness ==
    /\ pc = "return"
    /\ Len(result) = 36
    /\ Len(location_info.location.languages) = 1
    /\ Len(location_info.currency_rates) = 1
    /\ Len(location_info.news) = 1

C8_TrueMaxima ==
    (Scanned /\ Len(result) >= 1) =>
        /\ \A it \in AllItems :
              Len(it.key) <= max_key_length /\ Len(it.val) <= max_val_length
        /\ \E it \in AllItems : Len(it.key) = max_key_length
        /\ \E it \in AllItems : Len(it.val) = max_val_length
        /\ Cardinality(AllItems) = 15

\* C8 witness: rows are being emitted and the widest value and the widest label
\* are both found in the capital dict only
C8_Witness ==
    /\ pc = "emit_country"
    /\ Len(result) >= 3
    /\ \A k \in 1..Len(country_part) :
          /\ Len(country_part[k].val) < max_val_length
          /\ Len(country_part[k].key) < max_key_length

\* C10: the 35 table elements (top border, title rows, separators, data rows)
\* all have the same width, the line end not counted, and none of the padding
\* counts render computes is negative.
C10_AlignedTable ==
    Scanned =>
        /\ \A k \in 1..Len(result) :
              k <= 35 => Width(result[k]) = max_key_length + max_val_length + 9
        /\ max_key_length + max_val_length + 5 - Len(country_part_header) >= 0
        /\ max_key_length + max_val_length + 5 - Len(capital_part_header) >= 0
        /\ \A it \in AllItems :
              /\ max_key_length - Len(it.key) >= 0
              /\ max_val_length - Len(it.val) + 2 >= 0

\* C10 witness: all 35 table elements are in the list, for the input with the
\* shortest values
C10_Witness ==
    /\ pc = "emit_news"
    /\ Len(result) = 35
    /\ Len(location_info.location.languages) = 0
    /\ Len(location_info.currency_rates) = 0

(***************************************************************************)
(* Properties of the helpers (checked under SpecHelpers).                  *)
(***************************************************************************)
IsDigit(c) == \E d \in 1..10 : DigitChars[d] = c

DigitVal(c) == CHOOSE d \in 0..9 : DigitChars[d + 1] = c

\* the number a run of decimal digits writes
RECURSIVE DigitsValue(_)
DigitsValue(s) ==
    IF Len(s) = 0 THEN 0
    ELSE 10 * DigitsValue(SubSeq(s, 1, Len(s) - 1)) + DigitVal(s[Len(s)])

\* a run of digits that is the decimal numeral of a natural number
IsNumeral(s) ==
    /\ Len(s) >= 1
    /\ \A k \in 1..Len(s) : IsDigit(s[k])
    /\ Len(s) > 1 => s[1] # "0"

\* the lines of a text, each without the line end that closes it
RECURSIVE SplitLines(_)
SplitLines(s) ==
    IF Len(s) = 0 THEN <<>>
    ELSE IF \A k \in 1..Len(s) : s[k] # NL THEN <<s>>
    ELSE LET p == CHOOSE k \in 1..Len(s) :
                     s[k] = NL /\ \A j \in 1..(k - 1) : s[j] # NL
         IN  <<SubSeq(s, 1, p - 1)>> \o SplitLines(SubSeq(s, p + 1, Len(s)))

\* the sign of (exact value of the rate) - milli/1000
ExactOffsetSign(rate) == IF rate.isFloat THEN FloatErrSign(rate.milli) ELSE 0

\* C2: a rate is rendered with exactly two decimals as the hundredth nearest
\* to its exact value, a rate exactly halfway between two hundredths going to
\* the one of larger magnitude (never to the even one when that is the
\* smaller); 2.345 gives "2.35" and 2.344 gives "2.34", as str and as float.
C2_RoundHalfUp ==
    (ret.op = "currency_rates" /\ Len(location_info.currency_rates) = 1) =>
        LET e == location_info.currency_rates[1]
            s == ret.val
            num == SubSeq(s, Len(e.code) + 4, Len(s) - 5)
            neg == Len(num) >= 1 /\ num[1] = "-"
            mag == IF neg THEN Tail(num) ELSE num
            whole == SubSeq(mag, 1, Len(mag) - 3)
            frac == SubSeq(mag, Len(mag) - 1, Len(mag))
            c == 100 * DigitsValue(whole) + DigitsValue(frac)
            d == 10 * c - e.rate.milli
            off == ExactOffsetSign(e.rate)
        IN  /\ SubSeq(s, 1, Len(e.code) + 3) = e.code \o <<" ", "=", " ">>
            /\ SubSeq(s, Len(s) - 4, Len(s)) = <<" ", "r", "u", "b", ".">>
            /\ neg <=> e.rate.neg
            /\ Len(mag) >= 4
            /\ mag[Len(mag) - 2] = "."
            /\ IsNumeral(whole)
            /\ IsDigit(frac[1]) /\ IsDigit(frac[2])
            /\ \/ d \in -4..4
               \/ d = 5 /\ off >= 0
               \/ d = -5 /\ off < 0
            /\ (e.rate.milli = 2345 /\ ~e.rate.neg) => num = <<"2", ".", "3", "5">>
            /\ (e.rate.milli = 2344 /\ ~e.rate.neg) => num = <<"2", ".", "3", "4">>

\* C2 witness: the str "2.345", an exact tie whose lower neighbour 2.34 is the
\* even one, has been formatted as 2.35
C2_Witness ==
    /\ ret.op = "currency_rates"
    /\ location_info.currency_rates = <<Entry(<<"U", "S", "D">>, Rate(FALSE, FALSE, 2345))>>
    /\ ret.val = <<"U", "S", "D", " ", "=", " ", "2", ".", "3", "5", " ", "r", "u", "b", ".">>

\* C3: _format_timezone gives "UTC", then "+" exactly when the offset is >= 0,
\* then the decimal numeral of floor(offset / 3600): 10800 gives "UTC+3",
\* -18000 "UTC-5", 0 "UTC+0", -19800 "UTC-6".
C3_TimezoneFloorHours ==
    ret.op = "timezone" =>
        LET tz == location_info.weather.timezone
            s == ret.val
            rest == SubSeq(s, 4, Len(s))
            plus == Len(rest) >= 1 /\ rest[1] = "+"
            num == IF plus THEN Tail(rest) ELSE rest
            neg == Len(num) >= 1 /\ num[1] = "-"
            mag == IF neg THEN Tail(num) ELSE num
            h == IF neg THEN -DigitsValue(mag) ELSE DigitsValue(mag)
        IN  /\ SubSeq(s, 1, 3) = <<"U", "T", "C">>
            /\ plus <=> tz >= 0
            /\ IsNumeral(mag)
            /\ 3600 * h <= tz
            /\ tz < 3600 * (h + 1)
            /\ tz = 10800 => s = <<"U", "T", "C", "+", "3">>
            /\ tz = -18000 => s = <<"U", "T", "C", "-", "5">>
            /\ tz = 0 => s = <<"U", "T", "C", "+", "0">>
            /\ tz = -19800 => s = <<"U", "T", "C", "-", "6">>

\* C3 witness: a negative offset that is no multiple of 3600 has been formatted
C3_Witness ==
    /\ ret.op = "timezone"
    /\ location_info.weather.timezone = -19800
    /\ ret.val = <<"U", "T", "C", "-", "6">>

\* C4: _format_news gives the header line, then for each of the N items, in
\* input order, the lines title, description, url, published_at and one blank
\* line; with N = 0 the header line only.
C4_NewsDigest ==
    ret.op = "news" =>
        LET news == location_info.news
            lines == SplitLines(ret.val)
        IN  /\ ret.val[Len(ret.val)] = NL
            /\ Len(lines) = 1 + 5 * Len(news)
            /\ lines[1] = NewsHeader
            /\ \A k \in 1..Len(news) :
                  /\ lines[5 * k - 3] = news[k].title
                  /\ lines[5 * k - 2] = news[k].description
                  /\ lines[5 * k - 1] = news[k].url
                  /\ lines[5 * k] = news[k].published_at
                  /\ lines[5 * k + 1] = <<>>

\* C4 witness: two different items have been formatted
C4_Witness ==
    /\ ret.op = "news"
    /\ Len(location_info.news) = 2
    /\ location_info.news[1] # location_info.news[2]

\* C9: _format_population gives the decimal digits of a population >= 0 in
\* order, none added or dropped, with a "." before every group of three
\* counted from the right and nowhere else, and never a ","; below 1000 there
\* is no separator; 1234567 gives "1.234.567".
C9_PopulationGrouping ==
    ret.op = "population" =>
        LET n == location_info.location.population
            s == ret.val
            L == Len(s)
            digits == SelectSeq(s, LAMBDA c : c # ".")
        IN  /\ L >= 1
            /\ \A k \in 1..L : s[k] # ","
            /\ \A k \in 1..L : (s[k] = ".") <=> ((L - k + 1) % 4 = 0)
            /\ IsNumeral(digits)
            /\ DigitsValue(digits) = n
            /\ n < 1000 => s = digits
            /\ n = 1234567 => s = <<"1", ".", "2", "3", "4", ".", "5", "6", "7">>

\* C9 witness: the population of the claim's example has been formatted
C9_Witness ==
    /\ ret.op = "population"
    /\ location_info.location.population = 1234567
    /\ ret.val = <<"1", ".", "2", "3", "4", ".", "5", "6", "7">>

====
